---- MODULE Spec2Model ----
(***************************************************************************)
(* A model of split_audio (src/splitter.py, lines 10-67): the duration     *)
(* probe, the chunk count, the loop over the chunks with its cancellation  *)
(* checkpoint, the ffmpeg call of each chunk and the progress callback;    *)
(* and of DragDropGUI (lines 69-212): its handlers on the main thread and  *)
(* the worker thread that start_processing starts.                         *)
(*                                                                         *)
(* Times are whole seconds.  The code computes them in floating point      *)
(* (duration is a float, chunk_length_seconds an int).  For durations and  *)
(* chunk lengths of this size the products are exact, int() of the rounded *)
(* quotient is the truncation of the exact one, and the rounded progress   *)
(* values compare as the exact fractions do, so integers and fractions     *)
(* give the same answers.                                                  *)
(***************************************************************************)
EXTENDS Integers, Sequences, FiniteSets

\* Longest duration (seconds) ffprobe reports in the model.
MaxDuration == 300
\* Largest |chunk_length_minutes| a caller passes in the model.
MaxMinutes == 2
\* chunk_length_seconds = chunk_length_minutes * 60   (line 27)
SecondsPerMinute == 60
\* progress = (i + 1) / num_chunks * 100               (line 58)
Percent == 100
\* Longest duration, in half minutes, of the runs that vary the file names.
MaxHalfMinutes == 4
\* f"{i+1:03d}": the minimum width of the index                (line 44)
IndexWidth == 3
\* Most runs the user starts in the model.
MaxRuns == 2

VARIABLES
    pc,                    \* where split_audio is
    chunk_length_minutes,  \* argument
    cancel_event,          \* argument: "None", or an Event that is "clear" or "set"
    progress_callback,     \* argument: TRUE when a callback is passed
    input_file,            \* argument: the path, a sequence of characters
    output_format,         \* argument: the extension, a sequence of characters
    output_folder,         \* argument: a path; <<>> for None and for ""
    folders,               \* the directories that exist on disk
    chunk_length_seconds,  \* local, line 27
    duration,              \* local, line 31
    num_chunks,            \* local, line 33
    i,                     \* loop variable, line 38
    exit,                  \* how the call ended: "none", "return40", "return61", "raise"
    retval,                \* the value returned: "none" or "True"
    error,                 \* the exception raised: "none" or its class
    failedAt,              \* the statement that failed: "none", "probe", "count", "transcode"
    probeCalls,            \* ffprobe calls issued
    calls,                 \* ffmpeg calls issued, in order: [index, start, end, out]
    files,                 \* output files written by ffmpeg calls that succeeded
    progress,              \* values passed to progress_callback, in order, as fractions
    cancelAt,              \* when cancel_event was set: completed chunks and pc
    file_path,             \* self.file_path: "None", "empty" ('') or "audio"
    start_state,           \* start_button's state: "disabled" or "normal"
    start_packed,          \* start_button is shown
    cancel_packed,         \* cancel_button is shown
    bar_packed,            \* progress_bar is shown
    label,                 \* the text of self.label
    self_cancel_event,     \* self.cancel_event: 0 for None, or the Event's identity
    eventsSet,             \* the Events that are set
    main,                  \* "idle", or "update182": start_processing is in master.update()
    run_minutes,           \* start_processing's local chunk_length_minutes
    worker,                \* where the newest worker thread is, "none" without one
    run_input,             \* self.file_path as the worker read it at line 189
    worker_event,          \* self.cancel_event as the worker read it at line 189
    tails,                 \* workers that have run line 198 and not yet line 199
    runs,                  \* runs started
    pressedIn              \* the runs during which Cancel was pressed

vars == <<pc, chunk_length_minutes, cancel_event, progress_callback,
          input_file, output_format, output_folder, folders,
          chunk_length_seconds, duration, num_chunks, i, exit, retval, error,
          failedAt, probeCalls, calls, files, progress, cancelAt,
          file_path, start_state, start_packed, cancel_packed, bar_packed,
          label, self_cancel_event, eventsSet, main, run_minutes, worker,
          run_input, worker_event, tails, runs, pressedIn>>

args == <<chunk_length_minutes, cancel_event, progress_callback,
          input_file, output_format, output_folder>>
\* The widgets and attributes of DragDropGUI, and its threads.
widgets == <<start_state, start_packed, cancel_packed, bar_packed, label>>
threads == <<main, run_minutes, worker, run_input, worker_event, tails, runs>>
gui == <<file_path, widgets, self_cancel_event, eventsSet, threads, pressedIn>>
\* What split_audio never writes: the directories on disk and the GUI.
outside == <<folders, gui>>
locals == <<chunk_length_seconds, duration, num_chunks, i>>
result == <<exit, retval, error, failedAt>>
effects == <<probeCalls, calls, files, progress>>

ChunkLengths == (0 - MaxMinutes)..MaxMinutes
Durations == 0..MaxDuration
CancelEvents == {"None", "clear", "set"}
ProbeErrors == {"CalledProcessError", "OSError", "ValueError"}
TranscodeErrors == {"CalledProcessError", "OSError"}

Abs(x) == IF x < 0 THEN 0 - x ELSE x

\* int(a / b) for b # 0: Python's int() truncates the quotient toward zero.
TruncDiv(a, b) ==
    IF (a >= 0) = (b > 0) \/ a = 0
    THEN Abs(a) \div Abs(b)
    ELSE 0 - (Abs(a) \div Abs(b))

Min(a, b) == IF a <= b THEN a ELSE b

\* line 33
NumChunksMissingLast(d, l) == TruncDiv(d, l)
NumChunks(d, l) == TruncDiv(d, l) + 1

\* line 42
StartTime(k, l) == k * l

\* line 43
EndTimeUnclamped(k, l, d) == (k + 1) * l
EndTime(k, l, d) == Min((k + 1) * l, d)

\* line 44: the output file of chunk k is named by k+1; the base name and the
\* format are the same for every chunk of a call.
OutputFile(k) == k + 1

(***************************************************************************)
(* File names.  A string is the sequence of its characters.                *)
(***************************************************************************)
Song == <<"s", "o", "n", "g", ".", "w", "a", "v">>
NestedFlac == <<"i", "n", "/", "a", ".", "b", ".", "f", "l", "a", "c">>
DotFile == <<".", "r", "c">>
Mp3 == <<"m", "p", "3">>
Ogg == <<"o", "g", "g">>
OutDir == <<"o", "u", "t">>
OutDirSlash == <<"o", "u", "t", "/">>
NewDir == <<"n", "e", "w">>

InputFiles == {Song, NestedFlac, DotFile}
Formats == {Mp3, Ogg}
\* <<>> is output_folder=None, the default, and "": both are false at line 45.
OutputFolders == {<<>>, OutDir, OutDirSlash, NewDir}
\* The durations of the runs that vary the file names and of the GUI's runs.
ShortDurations == {30 * h : h \in 0..MaxHalfMinutes}

\* str.rfind(c) + 1: the last position of c in s, 0 when there is none.
LastIndexOf(s, c) ==
    LET ks == {k \in 1..Len(s) : s[k] = c}
    IN IF ks = {} THEN 0 ELSE CHOOSE k \in ks : \A j \in ks : j <= k

\* line 35: os.path.basename, what follows the last "/"
Basename(p) == SubSeq(p, LastIndexOf(p, "/") + 1, Len(p))

\* line 35: os.path.splitext(name)[0]: what precedes the last "." unless only
\* "." precede it
SplitextRoot(n) ==
    LET dot == LastIndexOf(n, ".")
    IN IF dot > 0 /\ \E k \in 1..(dot - 1) : n[k] # "."
       THEN SubSeq(n, 1, dot - 1)
       ELSE n

DigitChar(d) == <<"0", "1", "2", "3", "4", "5", "6", "7", "8", "9">>[d + 1]

RECURSIVE Digits(_)
\* The decimal digits of n >= 0, without leading zeros.
Digits(n) ==
    IF n < 10 THEN <<DigitChar(n)>>
    ELSE Digits(n \div 10) \o <<DigitChar(n % 10)>>

\* line 44: f"{n:03d}": the digits cut to the last three.
ZeroPadTruncating(n) ==
    LET ds == Digits(n % 1000)
    IN IF Len(ds) >= IndexWidth THEN ds
       ELSE [k \in 1..(IndexWidth - Len(ds)) |-> "0"] \o ds

\* line 44: f"{n:03d}": zeros in front up to three characters, more digits kept
ZeroPad(n) ==
    LET ds == Digits(n)
    IN IF Len(ds) >= IndexWidth THEN ds
       ELSE [k \in 1..(IndexWidth - Len(ds)) |-> "0"] \o ds

\* lines 35, 44: f"{i+1:03d}_{original_filename}.{output_format}"
OutputName(k, f, fmt) ==
    ZeroPad(k + 1) \o <<"_">> \o SplitextRoot(Basename(f)) \o <<".">> \o fmt

\* line 46: os.path.join(a, b) for a non-empty a and a relative b
PathJoin(a, b) == IF a[Len(a)] = "/" THEN a \o b ELSE a \o <<"/">> \o b

\* lines 44-46
OutputPath(k, f, fmt, folder) ==
    IF folder # <<>> THEN PathJoin(folder, OutputName(k, f, fmt))
    ELSE OutputName(k, f, fmt)

\* The directory a path names, without the "/" that may end it.
StripSlash(a) == IF a[Len(a)] = "/" THEN SubSeq(a, 1, Len(a) - 1) ELSE a

\* line 55: ffmpeg can write its output only into a directory that exists;
\* the working directory does.
FolderExists ==
    IF output_folder = <<>> THEN TRUE ELSE StripSlash(output_folder) \in folders

\* line 58: (i + 1) / num_chunks * 100, as the fraction num/den.
ProgressValueFromIndex(k, n) == [num |-> k * Percent, den |-> n]
ProgressValue(k, n) == [num |-> (k + 1) * Percent, den |-> n]

\* line 39: cancel_event and cancel_event.is_set()
CancelNeverObserved == FALSE
CancelObservedBeforeLoopOnly == cancel_event = "set" /\ i = 0
CancelObserved == cancel_event = "set"

\* Chunks whose ffmpeg call has returned successfully.
Completed == IF pc = "progress" THEN i + 1 ELSE i

NeverCancelled == [done |-> 0, pc |-> "never"]

Init ==
    /\ pc = "start"
    /\ chunk_length_minutes = 0
    /\ cancel_event = "None"
    /\ progress_callback = FALSE
    /\ input_file = Song
    /\ output_format = Mp3
    /\ output_folder = <<>>
    /\ folders = {OutDir}
    /\ chunk_length_seconds = 0
    /\ duration = 0
    /\ num_chunks = 0
    /\ i = 0
    /\ exit = "none"
    /\ retval = "none"
    /\ error = "none"
    /\ failedAt = "none"
    /\ probeCalls = 0
    /\ calls = <<>>
    /\ files = {}
    /\ progress = <<>>
    /\ cancelAt = NeverCancelled
    /\ file_path = "None"
    /\ start_state = "disabled"
    /\ start_packed = TRUE
    /\ cancel_packed = FALSE
    /\ bar_packed = FALSE
    /\ label = "initial"
    /\ self_cancel_event = 0
    /\ eventsSet = {}
    /\ main = "idle"
    /\ run_minutes = 0
    /\ worker = "none"
    /\ run_input = "None"
    /\ worker_event = 0
    /\ tails = 0
    /\ runs = 0
    /\ pressedIn = {}

\* lines 62-67: both handlers print and re-raise.
Raise(err, where) ==
    /\ pc' = "done"
    /\ exit' = "raise"
    /\ error' = err
    /\ failedAt' = where
    /\ UNCHANGED retval

\* lines 40 and 61: return True
Return(line) ==
    /\ pc' = "done"
    /\ exit' = line
    /\ retval' = "True"
    /\ UNCHANGED <<error, failedAt>>

\* lines 10, 27: the call, and chunk_length_seconds = chunk_length_minutes * 60
CallWith(m, ev, cb, f, fmt, folder) ==
    /\ pc = "start"
    /\ UNCHANGED outside
    /\ chunk_length_minutes' = m
    /\ cancel_event' = ev
    /\ progress_callback' = cb
    /\ input_file' = f
    /\ output_format' = fmt
    /\ output_folder' = folder
    /\ chunk_length_seconds' = m * SecondsPerMinute
    /\ cancelAt' = IF ev = "set" THEN [done |-> 0, pc |-> "start"] ELSE cancelAt
    /\ pc' = "probe"
    /\ UNCHANGED <<duration, num_chunks, i, result, effects>>

\* line 10: a call that leaves output_format and output_folder to their
\* defaults, 'mp3' and None
Call(m, ev, cb) == CallWith(m, ev, cb, Song, Mp3, <<>>)

\* lines 30-31: ffprobe returns and its output parses
ProbeOk(d) ==
    /\ pc = "probe"
    /\ UNCHANGED outside
    /\ probeCalls' = probeCalls + 1
    /\ duration' = d
    /\ pc' = "count"
    /\ UNCHANGED <<args, chunk_length_seconds, num_chunks, i, result,
                   calls, files, progress, cancelAt>>

\* A probe failure reported the way the docstring (lines 22-24) has it: the
\* error is swallowed and False is returned.
ProbeFailReturnsFalse(err) ==
    /\ pc = "probe"
    /\ UNCHANGED outside
    /\ probeCalls' = probeCalls + 1
    /\ pc' = "done"
    /\ exit' = "return"
    /\ retval' = "False"
    /\ error' = err
    /\ failedAt' = "probe"
    /\ UNCHANGED <<args, locals, calls, files, progress, cancelAt>>

\* lines 30-31, 62-67: ffprobe cannot start (OSError), exits non-zero
\* (CalledProcessError) or prints what float() rejects (ValueError)
ProbeFail(err) ==
    /\ pc = "probe"
    /\ UNCHANGED outside
    /\ probeCalls' = probeCalls + 1
    /\ Raise(err, "probe")
    /\ UNCHANGED <<args, locals, calls, files, progress, cancelAt>>

\* line 33: duration / 0 raises ZeroDivisionError
ComputeNumChunks ==
    /\ pc = "count"
    /\ UNCHANGED outside
    /\ IF chunk_length_seconds = 0
       THEN /\ Raise("ZeroDivisionError", "count")
            /\ UNCHANGED <<num_chunks, i>>
       ELSE /\ num_chunks' = NumChunks(duration, chunk_length_seconds)
            /\ i' = 0
            /\ pc' = "loop"
            /\ UNCHANGED result
    /\ UNCHANGED <<args, chunk_length_seconds, duration, effects, cancelAt>>

\* lines 38, 61: range(num_chunks) is exhausted
LoopExit ==
    /\ pc = "loop"
    /\ UNCHANGED outside
    /\ i >= num_chunks
    /\ Return("return61")
    /\ UNCHANGED <<args, locals, effects, cancelAt>>

\* lines 39-40: the checkpoint finds the flag set
CheckpointCancelled ==
    /\ pc = "loop"
    /\ UNCHANGED outside
    /\ i < num_chunks
    /\ CancelObserved
    /\ Return("return40")
    /\ UNCHANGED <<args, locals, effects, cancelAt>>

\* line 39: the checkpoint finds no event, or the flag clear
CheckpointPassed ==
    /\ pc = "loop"
    /\ UNCHANGED outside
    /\ i < num_chunks
    /\ ~CancelObserved
    /\ pc' = "window"
    /\ UNCHANGED <<args, locals, result, effects, cancelAt>>

\* lines 42-55: the window and the output file are computed, ffmpeg is started
TranscodeStart ==
    /\ pc = "window"
    /\ UNCHANGED outside
    /\ calls' = Append(calls,
                  [index |-> i,
                   start |-> StartTime(i, chunk_length_seconds),
                   end |-> EndTime(i, chunk_length_seconds, duration),
                   out |-> OutputFile(i),
                   path |-> OutputPath(i, input_file, output_format,
                                       output_folder)])
    /\ pc' = "ffmpeg"
    /\ UNCHANGED <<args, locals, result, probeCalls, files, progress, cancelAt>>

\* line 55: ffmpeg exits 0, having written (-y: overwritten) the output file
TranscodeOk ==
    /\ pc = "ffmpeg"
    /\ UNCHANGED outside
    /\ FolderExists
    /\ files' = files \cup {calls[Len(calls)].out}
    /\ pc' = "progress"
    /\ UNCHANGED <<args, locals, result, probeCalls, calls, progress, cancelAt>>

\* An ffmpeg failure reported the way the docstring (lines 22-24) has it: the
\* error is swallowed and False is returned.
TranscodeFailReturnsFalse(err) ==
    /\ pc = "ffmpeg"
    /\ UNCHANGED outside
    /\ pc' = "done"
    /\ exit' = "return"
    /\ retval' = "False"
    /\ error' = err
    /\ failedAt' = "transcode"
    /\ UNCHANGED <<args, locals, effects, cancelAt>>

\* An ffmpeg failure caught inside the loop: the loop goes on with the next
\* chunk.
TranscodeFailContinues(err) ==
    /\ pc = "ffmpeg"
    /\ UNCHANGED outside
    /\ i' = i + 1
    /\ pc' = "loop"
    /\ UNCHANGED <<args, chunk_length_seconds, duration, num_chunks, result,
                   effects, cancelAt>>

\* lines 55, 62-67: ffmpeg cannot start (OSError) or exits non-zero
\* (CalledProcessError, check=True)
TranscodeFail(err) ==
    /\ pc = "ffmpeg"
    /\ UNCHANGED outside
    /\ Raise(err, "transcode")
    /\ UNCHANGED <<args, locals, effects, cancelAt>>

\* The callback called once, after the last chunk only.
ProgressOnlyWhenDone ==
    /\ pc = "progress"
    /\ UNCHANGED outside
    /\ progress' = IF progress_callback /\ i + 1 = num_chunks
                   THEN Append(progress, ProgressValue(i, num_chunks))
                   ELSE progress
    /\ i' = i + 1
    /\ pc' = "loop"
    /\ UNCHANGED <<args, chunk_length_seconds, duration, num_chunks, result,
                   probeCalls, calls, files, cancelAt>>

\* lines 57-59, 38: the callback, if any, gets the percentage and returns;
\* next i
Progress ==
    /\ pc = "progress"
    /\ UNCHANGED outside
    /\ progress' = IF progress_callback
                   THEN Append(progress, ProgressValue(i, num_chunks))
                   ELSE progress
    /\ i' = i + 1
    /\ pc' = "loop"
    /\ UNCHANGED <<args, chunk_length_seconds, duration, num_chunks, result,
                   probeCalls, calls, files, cancelAt>>

\* Setting the event also ends an ffmpeg call in flight, and the run with it.
SetCancelKillsCall ==
    /\ pc # "start"
    /\ UNCHANGED outside
    /\ cancel_event = "clear"
    /\ cancel_event' = "set"
    /\ cancelAt' = [done |-> Completed, pc |-> pc]
    /\ IF pc = "ffmpeg"
       THEN /\ pc' = "done"
            /\ exit' = "return40"
            /\ retval' = "True"
            /\ UNCHANGED <<error, failedAt>>
       ELSE UNCHANGED <<pc, result>>
    /\ UNCHANGED <<chunk_length_minutes, progress_callback, input_file,
                   output_format, output_folder, locals, effects>>

\* line 205: the caller's thread sets the event the call was given
SetCancel ==
    /\ pc # "start"
    /\ UNCHANGED outside
    /\ cancel_event = "clear"
    /\ cancel_event' = "set"
    /\ cancelAt' = [done |-> Completed, pc |-> pc]
    /\ UNCHANGED <<pc, chunk_length_minutes, progress_callback, input_file,
                   output_format, output_folder, locals, result, effects>>

Next ==
    \/ \E m \in ChunkLengths, ev \in CancelEvents, cb \in BOOLEAN : Call(m, ev, cb)
    \/ \E d \in Durations : ProbeOk(d)
    \/ \E err \in ProbeErrors : ProbeFail(err)
    \/ ComputeNumChunks
    \/ LoopExit
    \/ CheckpointCancelled
    \/ CheckpointPassed
    \/ TranscodeStart
    \/ TranscodeOk
    \/ \E err \in TranscodeErrors : TranscodeFail(err)
    \/ Progress
    \/ SetCancel

Spec == Init /\ [][Next]_vars

\* The calls that name the input file, the format and the output folder.
PathNext ==
    \/ \E m \in ChunkLengths, ev \in CancelEvents, cb \in BOOLEAN,
          f \in InputFiles, fmt \in Formats, folder \in OutputFolders :
          CallWith(m, ev, cb, f, fmt, folder)
    \/ \E d \in ShortDurations : ProbeOk(d)
    \/ \E err \in ProbeErrors : ProbeFail(err)
    \/ ComputeNumChunks
    \/ LoopExit
    \/ CheckpointCancelled
    \/ CheckpointPassed
    \/ TranscodeStart
    \/ TranscodeOk
    \/ \E err \in TranscodeErrors : TranscodeFail(err)
    \/ Progress
    \/ SetCancel

PathSpec == Init /\ [][PathNext]_vars

(***************************************************************************)
(* DragDropGUI.  The handlers run on the main thread; the worker's widget  *)
(* calls are carried out there too, one at a time, between the handlers.   *)
(* The GUI passes its working directory as the output folder, which        *)
(* exists, as the working directory of a call without a folder does.       *)
(***************************************************************************)
\* line 104, 142-143: the entry takes digits only
EntryMinutes == 0..MaxMinutes

split == <<pc, args, locals, result, effects, cancelAt>>

\* lines 145-155: a file is dropped; one that is no audio file is refused
Drop(audio) ==
    /\ IF audio
       THEN /\ file_path' = "audio"
            /\ label' = "ready"
            /\ start_state' = "normal"
       ELSE /\ file_path' = "None"
            /\ UNCHANGED <<label, start_state>>
    /\ UNCHANGED <<split, folders, start_packed, cancel_packed, bar_packed,
                   self_cancel_event, eventsSet, threads, pressedIn>>

\* lines 157-160, 167-169: the file dialog returns a path, or '' when closed
ChooseFile(chosen) ==
    /\ IF chosen
       THEN /\ file_path' = "audio"
            /\ label' = "ready"
            /\ start_state' = "normal"
       ELSE /\ file_path' = "empty"
            /\ UNCHANGED <<label, start_state>>
    /\ UNCHANGED <<split, folders, start_packed, cancel_packed, bar_packed,
                   self_cancel_event, eventsSet, threads, pressedIn>>

\* lines 171-182: Split! is clicked.  Without a file the handler returns; an
\* empty entry makes int() raise and ends it; else the widgets are switched
\* and master.update() runs the events that are pending.
StartProcessing(m, emptyEntry) ==
    /\ start_packed
    /\ start_state = "normal"
    /\ runs < MaxRuns
    /\ IF file_path # "audio" \/ emptyEntry
       THEN UNCHANGED <<label, start_packed, cancel_packed, bar_packed, main,
                        run_minutes>>
       ELSE /\ run_minutes' = m
            /\ label' = "processing"
            /\ start_packed' = FALSE
            /\ cancel_packed' = TRUE
            /\ bar_packed' = TRUE
            /\ main' = "update182"
    /\ UNCHANGED <<split, folders, file_path, start_state, self_cancel_event,
                   eventsSet, worker, run_input, worker_event, tails, runs,
                   pressedIn>>

\* The Event made once only, when there is none yet.
StartThreadReusingEvent ==
    /\ main = "update182"
    /\ self_cancel_event' = IF self_cancel_event = 0 THEN runs + 1
                            ELSE self_cancel_event
    /\ runs' = runs + 1
    /\ worker' = "spawned"
    /\ main' = "idle"
    /\ UNCHANGED <<split, folders, file_path, widgets, eventsSet, run_minutes,
                   run_input, worker_event, tails, pressedIn>>

\* lines 184-201: master.update() has returned; a new Event, clear, and the
\* worker thread is started
StartThread ==
    /\ main = "update182"
    /\ self_cancel_event' = runs + 1
    /\ runs' = runs + 1
    /\ worker' = "spawned"
    /\ main' = "idle"
    /\ UNCHANGED <<split, folders, file_path, widgets, eventsSet, run_minutes,
                   run_input, worker_event, tails, pressedIn>>

\* lines 187-189: the thread runs and evaluates the arguments of split_audio
WorkerBegin ==
    /\ worker = "spawned"
    /\ worker' = "run"
    /\ run_input' = file_path
    /\ worker_event' = self_cancel_event
    /\ pc' = "start"
    /\ chunk_length_minutes' = 0
    /\ cancel_event' = "None"
    /\ progress_callback' = FALSE
    /\ input_file' = Song
    /\ output_format' = Mp3
    /\ output_folder' = <<>>
    /\ chunk_length_seconds' = 0
    /\ duration' = 0
    /\ num_chunks' = 0
    /\ i' = 0
    /\ exit' = "none"
    /\ retval' = "none"
    /\ error' = "none"
    /\ failedAt' = "none"
    /\ probeCalls' = 0
    /\ calls' = <<>>
    /\ files' = {}
    /\ progress' = <<>>
    /\ cancelAt' = NeverCancelled
    /\ UNCHANGED <<folders, file_path, widgets, self_cancel_event, eventsSet,
                   main, run_minutes, tails, runs, pressedIn>>

\* line 189: split_audio is called with the Event the worker read
WorkerCall ==
    /\ worker = "run"
    /\ Call(run_minutes,
            IF worker_event \in eventsSet THEN "set" ELSE "clear",
            TRUE)

\* lines 203-208: Cancel is clicked
CancelProcessing ==
    /\ cancel_packed
    /\ IF self_cancel_event # 0
       THEN /\ eventsSet' = eventsSet \cup {self_cancel_event}
            /\ label' = "cancelled"
            /\ bar_packed' = FALSE
            /\ pressedIn' = pressedIn \cup {runs}
            /\ IF /\ worker = "run"
                  /\ worker_event = self_cancel_event
                  /\ cancel_event = "clear"
               THEN /\ cancel_event' = "set"
                    /\ cancelAt' = [done |-> Completed, pc |-> pc]
               ELSE UNCHANGED <<cancel_event, cancelAt>>
       ELSE UNCHANGED <<eventsSet, label, bar_packed, pressedIn, cancel_event,
                        cancelAt>>
    /\ UNCHANGED <<pc, chunk_length_minutes, progress_callback, input_file,
                   output_format, output_folder, locals, result, effects,
                   folders, file_path, start_state, start_packed, cancel_packed,
                   self_cancel_event, threads>>

\* lines 189-190: split_audio has returned; self.cancel_event.is_set()
WorkerReturned ==
    /\ worker = "run"
    /\ pc = "done"
    /\ exit # "raise"
    /\ worker' = IF self_cancel_event \in eventsSet THEN "fin197" ELSE "label192"
    /\ UNCHANGED <<split, folders, file_path, widgets, self_cancel_event,
                   eventsSet, main, run_minutes, run_input, worker_event, tails,
                   runs, pressedIn>>

\* lines 191-192: success is True; basename(None) raises TypeError, which
\* line 193 catches
WorkerLabelComplete ==
    /\ worker = "label192"
    /\ IF file_path = "None"
       THEN /\ label' = "error"
            /\ worker' = "msgbox"
       ELSE /\ label' = "complete"
            /\ worker' = "fin197"
    /\ UNCHANGED <<split, folders, file_path, start_state, start_packed,
                   cancel_packed, bar_packed, self_cancel_event, eventsSet, main,
                   run_minutes, run_input, worker_event, tails, runs, pressedIn>>

\* lines 193-195: split_audio has raised; the label, and the error dialog
WorkerRaised ==
    /\ worker = "run"
    /\ pc = "done"
    /\ exit = "raise"
    /\ label' = "error"
    /\ worker' = "msgbox"
    /\ UNCHANGED <<split, folders, file_path, start_state, start_packed,
                   cancel_packed, bar_packed, self_cancel_event, eventsSet, main,
                   run_minutes, run_input, worker_event, tails, runs, pressedIn>>

\* line 195: the user closes the error dialog
DismissError ==
    /\ worker = "msgbox"
    /\ worker' = "fin197"
    /\ UNCHANGED <<split, folders, file_path, widgets, self_cancel_event,
                   eventsSet, main, run_minutes, run_input, worker_event, tails,
                   runs, pressedIn>>

\* line 197
FinallyHideCancel ==
    /\ worker = "fin197"
    /\ cancel_packed' = FALSE
    /\ worker' = "fin198"
    /\ UNCHANGED <<split, folders, file_path, start_state, start_packed,
                   bar_packed, label, self_cancel_event, eventsSet, main,
                   run_minutes, run_input, worker_event, tails, runs, pressedIn>>

\* line 198: Split! is shown again; line 199 is still to run
FinallyShowStart ==
    /\ worker = "fin198"
    /\ start_packed' = TRUE
    /\ worker' = "none"
    /\ tails' = tails + 1
    /\ UNCHANGED <<split, folders, file_path, start_state, cancel_packed,
                   bar_packed, label, self_cancel_event, eventsSet, main,
                   run_minutes, run_input, worker_event, runs, pressedIn>>

\* line 199, and the thread ends
FinallyHideBar ==
    /\ tails > 0
    /\ bar_packed' = FALSE
    /\ tails' = tails - 1
    /\ UNCHANGED <<split, folders, file_path, start_state, start_packed,
                   cancel_packed, label, self_cancel_event, eventsSet, main,
                   run_minutes, worker, run_input, worker_event, runs, pressedIn>>

\* The steps of split_audio on the worker thread.  ffprobe can succeed only
\* on the path of an audio file.
WorkerSplit ==
    /\ worker = "run"
    /\ \/ run_input = "audio" /\ \E d \in ShortDurations : ProbeOk(d)
       \/ \E err \in ProbeErrors : ProbeFail(err)
       \/ ComputeNumChunks
       \/ LoopExit
       \/ CheckpointCancelled
       \/ CheckpointPassed
       \/ TranscodeStart
       \/ TranscodeOk
       \/ \E err \in TranscodeErrors : TranscodeFail(err)
       \/ Progress

GuiNext ==
    \/ \E audio \in BOOLEAN : Drop(audio)
    \/ \E chosen \in BOOLEAN : ChooseFile(chosen)
    \/ \E m \in EntryMinutes, emptyEntry \in BOOLEAN : StartProcessing(m, emptyEntry)
    \/ StartThread
    \/ CancelProcessing
    \/ WorkerBegin
    \/ WorkerCall
    \/ WorkerSplit
    \/ WorkerReturned
    \/ WorkerLabelComplete
    \/ WorkerRaised
    \/ DismissError
    \/ FinallyHideCancel
    \/ FinallyShowStart
    \/ FinallyHideBar

GuiSpec == Init /\ [][GuiNext]_vars

TypeOK ==
    /\ pc \in {"start", "probe", "count", "loop", "window", "ffmpeg", "progress", "done"}
    /\ chunk_length_minutes \in ChunkLengths
    /\ cancel_event \in CancelEvents
    /\ progress_callback \in BOOLEAN
    /\ input_file \in InputFiles
    /\ output_format \in Formats
    /\ output_folder \in OutputFolders
    /\ folders = {OutDir}
    /\ duration \in Durations
    /\ exit \in {"none", "return40", "return61", "raise"}
    /\ retval \in {"none", "True"}
    /\ failedAt \in {"none", "probe", "count", "transcode"}
    /\ (pc = "done") = (exit # "none")

(***************************************************************************)
(* The claims.                                                             *)
(***************************************************************************)

\* The run has bound duration and chunk_length_seconds to positive values.
PositiveRun ==
    /\ pc \notin {"start", "probe"}
    /\ failedAt # "probe"
    /\ duration > 0
    /\ chunk_length_seconds > 0

\* C1: for every duration D > 0 and chunk length L > 0 the windows handed to
\* ffmpeg are contiguous (each starts where the previous one ends) and do not
\* overlap, the first starts at 0, and when the run has gone through all of
\* them the last one ends at D exactly: together they cover exactly [0, D).
C1_WindowsTile ==
    PositiveRun =>
        /\ calls # <<>> => calls[1].start = 0
        /\ \A j \in 2..Len(calls) : calls[j].start = calls[j - 1].end
        /\ \A j \in 1..Len(calls) : calls[j].start <= calls[j].end
        /\ exit = "return61" =>
              /\ calls # <<>>
              /\ calls[Len(calls)].end = duration

\* A run over three windows, the last one shorter than the chunk length.
C1_Witness ==
    /\ PositiveRun
    /\ exit = "return61"
    /\ Len(calls) = 3
    /\ duration % chunk_length_seconds # 0
    /\ calls[3].end - calls[3].start < chunk_length_seconds

\* C2: for every duration D >= 0 and chunk length L > 0 a run that is neither
\* cancelled nor failed attempts exactly floor(D / L) + 1 windows, also when D
\* is an exact multiple of L; D = 1500, L = 600 gives the three windows
\* [0,600), [600,1200), [1200,1500).
C2_WindowCount ==
    /\ (exit = "return61" /\ chunk_length_seconds > 0) =>
          /\ Len(calls) = (duration \div chunk_length_seconds) + 1
          /\ \A j \in 1..Len(calls) : calls[j].index = j - 1
    /\ NumChunks(1500, 600) = 3
    /\ [k \in 0..2 |-> <<StartTime(k, 600), EndTime(k, 600, 1500)>>]
         = [k \in 0..2 |-> <<<<0, 600>>, <<600, 1200>>, <<1200, 1500>>>>[k + 1]]

\* A finished run whose duration is an exact multiple of the chunk length.
C2_Witness ==
    /\ exit = "return61"
    /\ chunk_length_seconds > 0
    /\ duration = 2 * chunk_length_seconds
    /\ Len(calls) = 3

\* C3: every window handed to ffmpeg satisfies 0 <= start < end <= D, for
\* every D > 0 and L > 0: no window of zero or negative length is transcoded.
C3_WindowsNonEmpty ==
    PositiveRun =>
        \A j \in 1..Len(calls) :
            /\ 0 <= calls[j].start
            /\ calls[j].start < calls[j].end
            /\ calls[j].end <= duration

\* C4: a call with chunk_length_minutes <= 0 is rejected before any external
\* call: no ffprobe call, no ffmpeg call, and it does not return success.
C4_NonPositiveRejected ==
    (pc # "start" /\ chunk_length_minutes <= 0) =>
        /\ probeCalls = 0
        /\ calls = <<>>
        /\ retval # "True"

\* The flag was set when exactly k chunks had completed and the checkpoint of
\* the next chunk had not yet run.
CancelledBetweenWindows(k) ==
    /\ cancelAt.pc \in {"progress", "loop"}
    /\ cancelAt.done = k

\* Output files of the first k chunks.
FirstFiles(k) == {OutputFile(j) : j \in 0..(k - 1)}

\* C5: when the flag is set after exactly k of N windows have completed
\* (0 < k < N) and before the checkpoint of window k+1, no further ffmpeg call
\* is issued, and the run ends having issued exactly k ffmpeg calls and
\* written exactly k files, by the return of the checkpoint, not by an error.
C5_CancelBetweenWindows ==
    \A k \in 1..(num_chunks - 1) :
        CancelledBetweenWindows(k) =>
            /\ Len(calls) = k
            /\ files = FirstFiles(k)
            /\ Cardinality(files) = k
            /\ probeCalls = 1
            /\ pc \in {"progress", "loop", "done"}
            /\ pc = "done" => (exit = "return40" /\ error = "none")

\* Cancelled after window 2 of 5: two calls, two files.
C5_Witness ==
    /\ pc = "done"
    /\ num_chunks = 5
    /\ CancelledBetweenWindows(2)
    /\ exit = "return40"
    /\ Cardinality(files) = 2

\* The flag was set before the checkpoint of the first window ran.
CancelledBeforeFirstWindow ==
    /\ cancelAt.pc \in {"start", "probe", "count", "loop"}
    /\ cancelAt.done = 0

\* C6: when the flag is set before the first window's checkpoint, the run
\* issues no ffmpeg call, writes no file and emits no progress value, and a run
\* that reaches that checkpoint ends by its return, not by an error.
C6_CancelBeforeFirstWindow ==
    CancelledBeforeFirstWindow =>
        /\ calls = <<>>
        /\ files = {}
        /\ progress = <<>>
        /\ pc \notin {"window", "ffmpeg", "progress"}
        /\ (pc = "done" /\ failedAt \notin {"probe", "count"} /\ num_chunks >= 1) =>
              (exit = "return40" /\ error = "none")

\* The flag is set while ffprobe runs; the run of several windows stops at
\* its first checkpoint.
C6_Witness ==
    /\ pc = "done"
    /\ cancelAt = [done |-> 0, pc |-> "probe"]
    /\ num_chunks >= 2
    /\ progress_callback
    /\ exit = "return40"

C8_OutcomeDistinguished ==
    (pc = "done" /\ chunk_length_seconds > 0) =>
        /\ retval = "True" => Cardinality(files) = num_chunks
        /\ exit = "return40" => retval # "True"
        /\ exit = "raise" => (retval = "none" /\ error # "none")

\* p < q and p = c for fractions of positive denominator.
Less(p, q) == p.num * q.den < q.num * p.den
Equals(p, c) == p.num = c * p.den

\* C9: the values passed to the progress callback are strictly increasing
\* and lie in (0, 100], and on a run in which all N windows complete the last
\* value is exactly 100.
C9_ProgressIncreasing ==
    /\ \A j \in 1..Len(progress) :
          /\ progress[j].den > 0
          /\ Less([num |-> 0, den |-> 1], progress[j])
          /\ ~Less([num |-> 100, den |-> 1], progress[j])
    /\ \A j \in 2..Len(progress) : Less(progress[j - 1], progress[j])
    /\ (exit = "return61" /\ progress_callback /\ num_chunks >= 1) =>
          /\ Len(progress) = num_chunks
          /\ Equals(progress[Len(progress)], 100)

\* A complete run of three windows with a callback.
C9_Witness ==
    /\ exit = "return61"
    /\ progress_callback
    /\ Len(progress) = 3
    /\ ~Equals(progress[1], 100)

BegunAtCancel == cancelAt.done + (IF cancelAt.pc = "ffmpeg" THEN 1 ELSE 0)
AllowedAfterCancel == IF cancelAt.pc = "window" THEN 1 ELSE 0

\* C11: the flag never interrupts an ffmpeg call in flight: a call that has
\* started ends only by its own success or failure, whatever the flag, and
\* setting the flag leaves the call running; after the flag is set at most one
\* further ffmpeg call begins, the one whose checkpoint had already passed.
C11_CancelOnlyAtCheckpoint ==
    /\ [][pc = "ffmpeg" =>
            \/ pc' = "ffmpeg" /\ calls' = calls /\ files' = files
            \/ pc' = "progress" /\ files' = files \cup {calls[Len(calls)].out}
            \/ pc' = "done" /\ failedAt' = "transcode" /\ exit' = "raise"]_vars
    /\ [](cancelAt.pc \notin {"never", "done"} =>
            /\ cancel_event = "set"
            /\ Len(calls) <= BegunAtCancel + AllowedAfterCancel)

\* The flag was set during the ffmpeg call of the third window, which went on
\* to succeed; the run stopped at the next checkpoint.
C11_Witness ==
    /\ cancelAt = [done |-> 2, pc |-> "ffmpeg"]
    /\ pc = "done"
    /\ exit = "return40"
    /\ Cardinality(files) = 3
    /\ Len(calls) = 3

\* C12: a callback that is passed is called exactly once per completed
\* window, window index j-1 getting j/N*100, after the window's ffmpeg call
\* has returned and before the next checkpoint: at every checkpoint and at the
\* end of the run as many values have been emitted as windows have completed,
\* also for a window that completes after the flag was set.
C12_ProgressPerWindow ==
    progress_callback =>
        /\ \A j \in 1..Len(progress) :
              progress[j].num * num_chunks = j * 100 * progress[j].den
        /\ pc # "progress" => Len(progress) = Cardinality(files)
        /\ pc = "progress" => Len(progress) = Cardinality(files) - 1
        /\ pc \in {"loop", "window", "ffmpeg"} => Len(progress) = i

\* The flag was set during the second window's ffmpeg call; the window
\* completed and its value was emitted before the run stopped.
C12_Witness ==
    /\ progress_callback
    /\ cancelAt = [done |-> 1, pc |-> "ffmpeg"]
    /\ pc = "done"
    /\ exit = "return40"
    /\ Len(progress) = 2
    /\ num_chunks >= 3

\* ffmpeg calls that have ended, by success or by failure.
EndedCalls == Cardinality(files) + (IF failedAt = "transcode" THEN 1 ELSE 0)

\* C15: windows are transcoded one at a time in increasing index order: the
\* j-th ffmpeg call is for window index j-1 (none twice, none skipped), a call
\* begins only when every earlier one has returned successfully, and at most
\* one call is in flight.
C15_Sequential ==
    /\ \A j \in 1..Len(calls) : calls[j].index = j - 1
    /\ calls # <<>> => FirstFiles(Len(calls) - 1) \subseteq files
    /\ Len(calls) - EndedCalls = (IF pc = "ffmpeg" THEN 1 ELSE 0)
    /\ (pc = "done" /\ exit = "return61" /\ num_chunks >= 1) =>
          Len(calls) = num_chunks

\* The fourth window's call is in flight, the first three have returned.
C15_Witness ==
    /\ pc = "ffmpeg"
    /\ Len(calls) = 4
    /\ Cardinality(files) = 3

\* The directory part an output path is to have, and the stem of each input
\* file: its base name without the extension.
ExpectedDir ==
    CASE output_folder = <<>> -> <<>>
      [] output_folder = OutDir -> <<"o", "u", "t", "/">>
      [] output_folder = OutDirSlash -> <<"o", "u", "t", "/">>
      [] output_folder = NewDir -> <<"n", "e", "w", "/">>
ExpectedStem ==
    CASE input_file = Song -> <<"s", "o", "n", "g">>
      [] input_file = NestedFlac -> <<"a", ".", "b">>
      [] input_file = DotFile -> <<".", "r", "c">>

DigitValue(c) == CHOOSE d \in 0..9 : DigitChar(d) = c
RECURSIVE DecodeDigits(_)
\* The number a sequence of decimal digits writes.
DecodeDigits(ds) ==
    IF ds = <<>> THEN 0
    ELSE 10 * DecodeDigits(SubSeq(ds, 1, Len(ds) - 1)) + DigitValue(ds[Len(ds)])

\* Indices around the widths of one, two, three and four digits.
WideIndices == (0..12) \cup (95..105) \cup (995..1005)

\* index 0 of "song.wav" as mp3 is "001_song.mp3", index 9 "010_song.mp3",
\* and index 999 gets the four digits of 1000.
ExampleNames ==
    /\ OutputName(0, Song, Mp3)
         = <<"0", "0", "1", "_", "s", "o", "n", "g", ".", "m", "p", "3">>
    /\ OutputName(9, Song, Mp3)
         = <<"0", "1", "0", "_", "s", "o", "n", "g", ".", "m", "p", "3">>
    /\ OutputName(999, Song, Mp3)
         = <<"1", "0", "0", "0", "_", "s", "o", "n", "g", ".", "m", "p", "3">>

\* Different indices, also beyond 999, get different names.
WideNamesDiffer ==
    \A a, b \in WideIndices :
        OutputName(a, Song, Mp3) = OutputName(b, Song, Mp3) => a = b

\* C13: the output path of window index i is the output folder (the working
\* directory when none is given) joined with i+1 zero-padded to 3 digits, "_",
\* the input's base name without extension, ".", the format; two windows of
\* one request never get the same path.
C13_OutputPaths ==
    /\ \A j \in 1..Len(calls) :
          LET p == calls[j].path
              tail == <<"_">> \o ExpectedStem \o <<".">> \o output_format
              ds == SubSeq(p, Len(ExpectedDir) + 1, Len(p) - Len(tail))
          IN /\ p = ExpectedDir \o ds \o tail
             /\ Len(ds) = 3
             /\ \A k \in 1..Len(ds) : \E d \in 0..9 : ds[k] = DigitChar(d)
             /\ DecodeDigits(ds) = calls[j].index + 1
    /\ \A a, b \in 1..Len(calls) : calls[a].path = calls[b].path => a = b
    /\ ExampleNames
    /\ WideNamesDiffer

\* A complete run of three windows from a nested input into a folder named
\* with a trailing slash.
C13_Witness ==
    /\ pc = "done"
    /\ exit = "return61"
    /\ Len(calls) = 3
    /\ input_file = NestedFlac
    /\ output_format = Ogg
    /\ output_folder = OutDirSlash

\* C14: when the request names an output folder that does not exist, the run
\* creates it before the first window's ffmpeg call: a call is issued only
\* with the folder in place.
C14_FolderCreated ==
    (output_folder # <<>> /\ calls # <<>>) => StripSlash(output_folder) \in folders

(***************************************************************************)
(* The claims about the GUI, under GuiSpec.                                *)
(***************************************************************************)
\* The worker threads that have been started and have not ended.
LiveWorkers == (IF worker = "none" THEN 0 ELSE 1) + tails

\* C16: at most one split worker is running at any time; a second split is
\* not started before the worker of the previous one has finished.
C16_OneWorker == LiveWorkers <= 1

\* C17: the label reads "Processing complete" only when all the windows were
\* produced and the cancel flag of the run is not set; a Cancel pressed
\* between the worker's check of the flag and its write of the label does
\* not leave "Processing complete" standing.
C17_CompleteNotOvertaken ==
    label = "complete" =>
        /\ self_cancel_event \notin eventsSet
        /\ exit = "return61"
        /\ Len(calls) = num_chunks

\* The GUI shows Split! and neither Cancel nor the progress bar.
GuiIdle == start_packed /\ ~cancel_packed /\ ~bar_packed

\* C18: whenever a worker ends, however its run ended, the GUI is back in
\* its idle state: Split! shown, Cancel hidden, progress bar hidden.
C18_IdleWhenWorkerEnds == [][tails' < tails => GuiIdle']_vars

\* C19: each run gets its own cancel flag, clear when made; a run during
\* which Cancel was not pressed is not stopped by the flag, whatever was
\* pressed in earlier runs, and when it returns it has attempted all of its
\* N windows.
C19_FreshFlagPerRun ==
    /\ [][self_cancel_event' # self_cancel_event =>
            /\ self_cancel_event' \notin eventsSet'
            /\ self_cancel_event' = runs']_vars
    /\ [](worker = "run" /\ pc = "done" /\ runs \notin pressedIn =>
            /\ cancel_event = "clear"
            /\ exit # "return40"
            /\ exit = "return61" => Len(calls) = num_chunks)

\* The second run has attempted all its windows though Cancel was pressed in
\* the first run, whose flag is still set.
C19_Witness ==
    /\ runs = 2
    /\ worker = "run"
    /\ pc = "done"
    /\ 1 \in pressedIn
    /\ 1 \in eventsSet
    /\ 2 \notin pressedIn
    /\ exit = "return61"
    /\ Len(calls) = num_chunks
    /\ num_chunks >= 2

====
